---- MODULE Spec2Model ----
(***************************************************************************)
(* State-machine model of src/chatbot.py, a Streamlit chat page in front   *)
(* of a hosted generative model.                                           *)
(*                                                                         *)
(* Streamlit executes the script top to bottom once per widget event       *)
(* (a "run").  st.session_state survives between runs; a button is True    *)
(* only in the run its click caused.  One action below is one run of the   *)
(* script for one kind of event.  The send handler is cut at its single    *)
(* suspension point, the blocking call model.generate_content(...), so     *)
(* that the state "user message appended, assistant message not yet" is    *)
(* visible.                                                                *)
(*                                                                         *)
(* Text is a sequence of tokens (a token is a character or a literal of    *)
(* the source kept whole); "" is << >>.  None is << >>, a present value x  *)
(* is << x >>.                                                             *)
(***************************************************************************)
EXTENDS Integers, Sequences, FiniteSets, TLC

\* ------------------------------------------------------------------ bounds
\* Longest history explored (an accepted send needs room for two messages).
MaxChat == 4

\* ------------------------------------------------------------------ CONFIG
TEXT_MODEL == "gemini-flash-latest"
MULTIMODAL_MODEL == "gemini-2.0-flash"
MAX_OUTPUT_TOKENS == 512
\* TEMPERATURE = 0.9 and TOP_P = 0.95, in hundredths.
TEMPERATURE == 90
TOP_P == 95

PersonaNames ==
    {"General (default)", "Friendly Tutor", "Strict Interviewer",
     "Creative Writer", "Code Assistant"}

PERSONAS ==
    [p \in PersonaNames |->
        CASE p = "General (default)" ->
                 <<"You are a helpful, concise assistant.">>
          [] p = "Friendly Tutor" ->
                 <<"You are a patient tutor who explains step-by-step with examples.">>
          [] p = "Strict Interviewer" ->
                 <<"You ask probing, concise questions and challenge assumptions.">>
          [] p = "Creative Writer" ->
                 <<"You write with flair, vivid imagery, but stay on brief.">>
          [] p = "Code Assistant" ->
                 <<"You are a senior developer; offer clear, runnable code and best practices.">>]

\* The selectbox shows list(PERSONAS.keys()) and starts on its first entry.
DefaultPersona == "General (default)"

\* ------------------------------------------------------------------ text
None == << >>
Some(x) == << x >>

\* A character that has no literal here is the token "U+XXXX" of its code
\* point.  A token holding a whitespace, control, quote or backslash
\* character holds that character alone.

\* str.strip() with no argument removes, at both ends, every character c
\* with c.isspace(): the ASCII ones, the separators U+001C..U+001F and the
\* Unicode spaces.
IsSpace(c) ==
    c \in {" ", "\t", "\n", "U+000B", "\f", "\r",
           "U+001C", "U+001D", "U+001E", "U+001F", "U+0085", "U+00A0",
           "U+1680", "U+2000", "U+2001", "U+2002", "U+2003", "U+2004",
           "U+2005", "U+2006", "U+2007", "U+2008", "U+2009", "U+200A",
           "U+2028", "U+2029", "U+202F", "U+205F", "U+3000"}

RECURSIVE LStrip(_)
LStrip(s) ==
    IF s = << >> THEN << >>
    ELSE IF IsSpace(Head(s)) THEN LStrip(Tail(s))
    ELSE s

RECURSIVE RStrip(_)
RStrip(s) ==
    IF s = << >> THEN << >>
    ELSE IF IsSpace(s[Len(s)]) THEN RStrip(SubSeq(s, 1, Len(s) - 1))
    ELSE s

Strip(s) == RStrip(LStrip(s))

Digit(d) ==
    CASE d = 0 -> "0" [] d = 1 -> "1" [] d = 2 -> "2" [] d = 3 -> "3"
      [] d = 4 -> "4" [] d = 5 -> "5" [] d = 6 -> "6" [] d = 7 -> "7"
      [] d = 8 -> "8" [] d = 9 -> "9"

\* str(n) of a count n >= 0, one token per digit.
RECURSIVE IntToStr(_)
IntToStr(n) ==
    IF n < 10 THEN <<Digit(n)>>
    ELSE IntToStr(n \div 10) \o <<Digit(n % 10)>>

\* str.upper() of a role.
Upper(role) ==
    CASE role = "user" -> "USER"
      [] role = "assistant" -> "ASSISTANT"

\* datetime.now().strftime("%Y-%m-%d %H:%M:%S") at clock reading t.
\* The session starts at 10:00:00 and t stays below a minute.
Strftime(t) ==
    <<"2025-01-01 10:00:", Digit(t \div 10), Digit(t % 10)>>

\* "sep".join(lines)
RECURSIVE Join(_, _)
Join(sep, lines) ==
    IF lines = << >> THEN << >>
    ELSE IF Len(lines) = 1 THEN lines[1]
    ELSE lines[1] \o <<sep>> \o Join(sep, Tail(lines))

IsPrefix(s, t) ==
    /\ Len(s) <= Len(t)
    /\ SubSeq(t, 1, Len(s)) = s


\* ------------------------------------------------------------------ inputs
\* Uploaded files: f.type (empty when the browser gave none) and f.read().
Img1 == [type |-> "image/jpeg", data |-> <<"jpeg-bytes">>]
Img2 == [type |-> "", data |-> <<"png-bytes">>]
UploadClip == [type |-> "audio/mpeg", data |-> <<"mp3-bytes">>]
MicClip == [type |-> "", data |-> <<"wav-bytes">>]

Texts == { << >>, <<"h", "i">>, <<" ">> }
ImageUploads == { << >>, <<Img1>>, <<Img1, Img2>> }
AudioUploads == { None, Some(UploadClip) }
MicRecordings == { None, Some(MicClip) }

\* The widget values one run of the script reads: user_text, images,
\* audio_upload, the microphone toggle and what the microphone widget holds.
AllInputs ==
    [text : Texts, images : ImageUploads, audio_upload : AudioUploads,
     mic_enabled : BOOLEAN, mic_recording : MicRecordings]

Widgets(t, i, a, e, m) ==
    [text |-> t, images |-> i, audio_upload |-> a, mic_enabled |-> e,
     mic_recording |-> m]

\* The inputs the session specification sends with.
SessionInputs ==
    { Widgets(<< >>, << >>, None, FALSE, None),
      Widgets(<< >>, << >>, None, FALSE, Some(MicClip)),
      Widgets(<<"\r", "a", "\\", "b", " ">>, << >>, None, FALSE, None),
      Widgets(<< >>, <<Img1>>, None, FALSE, None),
      Widgets(<<"h", "i">>, <<Img1, Img2>>, Some(UploadClip), TRUE, Some(MicClip)) }

\* The personas the session specification selects among.
SelectablePersonas == {"General (default)", "Code Assistant"}

\* The readings of the wall clock, in seconds after the first run.
Clock == 0..1

\* What the text area is overwritten with.
CustomPrompts == { <<"Answer in French.">> }

\* What the provider call can do: return a response object or raise.
\* A response has an optional .text, an optional first candidate part text
\* and a string form.
Responses ==
    { [text |-> <<"ok">>, candidate |-> Some(<<"ok">>), repr |-> <<"<response>">>],
      [text |-> << >>, candidate |-> Some(<<"ok">>), repr |-> <<"<response>">>],
      [text |-> << >>, candidate |-> None, repr |-> <<"<response>">>] }
ProviderErrors == { <<"429 quota exceeded">> }

\* ------------------------------------------------------------------ state
VARIABLES
    chat,            \* st.session_state.chat: the messages, oldest first
    persona_prompt,  \* st.session_state.persona_prompt
    persona,         \* value of the persona selectbox
    system_prompt,   \* value of the system-prompt text area
    pc,              \* "idle": no run in progress; "awaiting": the send
                     \* handler is between its two appends
    args,            \* the widget values the running send handler read
    request,         \* what the running handler passed to the model
    result,          \* how run_model ended, once it has
    output,          \* what the last run showed besides the transcript
    now,             \* the wall clock
    clearedLen       \* history variable: the length of the history the last
                     \* clear removed, while no send has followed it

vars ==
    <<chat, persona_prompt, persona, system_prompt, pc, args, request,
      result, output, now, clearedLen>>

Shown(kind, data) == [kind |-> kind, data |-> data]
Nothing == Shown("none", << >>)


\* ------------------------------------------------------------------ HELPERS
\* _require_key(): raises ValueError when GOOGLE_API_KEY is unset or empty.
MissingKeyMessage ==
    <<"Missing GOOGLE_API_KEY environment variable. Set it in your terminal.">>

\* How run_model ended: it returned text_out, or an exception e with str(e).
Returned(text_out) == [raised |-> FALSE, value |-> text_out]
Raised(message) == [raised |-> TRUE, value |-> message]

\* _tts_to_bytes(text): None when gTTS is not importable or synthesis fails.
TtsToBytes(gtts_available, synthesis_ok, text) ==
    IF ~gtts_available THEN None
    ELSE IF synthesis_ok THEN Some(<<"mp3:">> \o text)
    ELSE None

\* _format_history_for_download(history)
FormatLine(h) ==
    <<"[">> \o h.time \o <<"] ", Upper(h.role), ": ">> \o h.content

FormatHistoryForDownload(history) ==
    Join("\n", [i \in 1..Len(history) |-> FormatLine(history[i])])

\* json.dumps(history, ensure_ascii=False, indent=2).  In a string the
\* quote and the backslash are escaped, \n \r \t \b \f have short escapes,
\* every other character below U+0020 becomes \u00xx, and everything else
\* (U+007F and non-ASCII included) is written as it is.
JsonEscapeChar(c) ==
    CASE c = "\"" -> "\\\""
      [] c = "\\" -> "\\\\"
      [] c = "\n" -> "\\n"
      [] c = "\r" -> "\\r"
      [] c = "\t" -> "\\t"
      [] c = "U+0008" -> "\\b"
      [] c = "\f" -> "\\f"
      [] c = "U+0000" -> "\\u0000" [] c = "U+0001" -> "\\u0001"
      [] c = "U+0002" -> "\\u0002" [] c = "U+0003" -> "\\u0003"
      [] c = "U+0004" -> "\\u0004" [] c = "U+0005" -> "\\u0005"
      [] c = "U+0006" -> "\\u0006" [] c = "U+0007" -> "\\u0007"
      [] c = "U+000B" -> "\\u000b" [] c = "U+000E" -> "\\u000e"
      [] c = "U+000F" -> "\\u000f" [] c = "U+0010" -> "\\u0010"
      [] c = "U+0011" -> "\\u0011" [] c = "U+0012" -> "\\u0012"
      [] c = "U+0013" -> "\\u0013" [] c = "U+0014" -> "\\u0014"
      [] c = "U+0015" -> "\\u0015" [] c = "U+0016" -> "\\u0016"
      [] c = "U+0017" -> "\\u0017" [] c = "U+0018" -> "\\u0018"
      [] c = "U+0019" -> "\\u0019" [] c = "U+001A" -> "\\u001a"
      [] c = "U+001B" -> "\\u001b" [] c = "U+001C" -> "\\u001c"
      [] c = "U+001D" -> "\\u001d" [] c = "U+001E" -> "\\u001e"
      [] c = "U+001F" -> "\\u001f"
      [] OTHER -> c

RECURSIVE JsonEscape(_)
JsonEscape(s) ==
    IF s = << >> THEN << >>
    ELSE <<JsonEscapeChar(Head(s))>> \o JsonEscape(Tail(s))

JsonString(s) == <<"\"">> \o JsonEscape(s) \o <<"\"">>

JsonObject(h) ==
    <<"  {", "\n", "    \"role\": ">> \o JsonString(<<h.role>>) \o <<",", "\n">>
    \o <<"    \"content\": ">> \o JsonString(h.content) \o <<",", "\n">>
    \o <<"    \"time\": ">> \o JsonString(h.time) \o <<"\n", "  }">>

RECURSIVE JsonObjects(_)
JsonObjects(history) ==
    IF history = << >> THEN << >>
    ELSE IF Len(history) = 1 THEN JsonObject(history[1])
    ELSE JsonObject(history[1]) \o <<",", "\n">> \o JsonObjects(Tail(history))

JsonDumps(history) ==
    IF history = << >> THEN <<"[]">>
    ELSE <<"[", "\n">> \o JsonObjects(history) \o <<"\n", "]">>

\* One element of the parts list: the text, or a {"mime_type", "data"} dict.
TextPart(text) == [mime_type |-> "text", data |-> text]
BlobPart(mime, bytes_data) == [mime_type |-> mime, data |-> bytes_data]

ImagePart(f) == BlobPart(IF f.type # "" THEN f.type ELSE "image/png", f.data)
AudioPart(f) == BlobPart(IF f.type # "" THEN f.type ELSE "audio/wav", f.data)

\* The mutant puts the audio before the images.
MakePartsAudioFirst(text, image_files, audio_file) ==
    (IF text # << >> THEN <<TextPart(text)>> ELSE << >>)
    \o (IF audio_file # None THEN <<AudioPart(audio_file[1])>> ELSE << >>)
    \o [i \in 1..Len(image_files) |-> ImagePart(image_files[i])]

\* _make_parts_from_inputs(text, image_files, audio_file)
MakePartsFromInputs(text, image_files, audio_file) ==
    (IF text # << >> THEN <<TextPart(text)>> ELSE << >>)
    \o [i \in 1..Len(image_files) |-> ImagePart(image_files[i])]
    \o (IF audio_file # None THEN <<AudioPart(audio_file[1])>> ELSE << >>)

\* ------------------------------------------------------------------ run_model
\* The mutant takes the multimodal model only when there are images.
UseMultimodalImagesOnly(images_files, audio_file) ==
    Len(images_files) > 0

\* use_multimodal = (images_files and len(images_files) > 0)
\*                  or (audio_file is not None)
UseMultimodal(images_files, audio_file) ==
    (images_files # << >> /\ Len(images_files) > 0) \/ audio_file # None

GenerationConfig ==
    [temperature |-> TEMPERATURE, top_p |-> TOP_P,
     max_output_tokens |-> MAX_OUTPUT_TOKENS]

FallbackGreeting == <<"Say hello!">>

\* The mutant instructs the model with the selected persona's default.
SystemInstructionPersonaDefault == PERSONAS[persona]

\* system_instruction=st.session_state.persona_prompt
SystemInstruction == persona_prompt

\* What run_model hands to genai once the key check has passed: the model
\* it constructs and the argument of generate_content.  A bare string
\* argument is one text part.
RunModelRequest(text, images_files, audio_file) ==
    LET use_multimodal == UseMultimodal(images_files, audio_file) IN
    [model_name |-> IF use_multimodal THEN MULTIMODAL_MODEL ELSE TEXT_MODEL,
     system_instruction |-> SystemInstruction,
     generation_config |-> GenerationConfig,
     contents |->
        IF use_multimodal
        THEN MakePartsFromInputs(text, images_files, audio_file)
        ELSE <<TextPart(IF text # << >> THEN text ELSE FallbackGreeting)>>]

\* text_out: response.text, else the first candidate's first part, else
\* str(response).
ExtractText(response) ==
    IF response.text # << >> THEN response.text
    ELSE IF response.candidate # None THEN response.candidate[1]
    ELSE response.repr

\* ------------------------------------------------------------------ send handler
\* mic_audio = st.audio_input(...) if mic_enabled else None
MicAudio(w) == IF w.mic_enabled THEN w.mic_recording ELSE None

\* The mutant accepts every click.
AcceptedAlways(w) == TRUE

\* not (user_text or images or audio_upload or mic_audio) is False
Accepted(w) ==
    w.text # << >> \/ w.images # << >> \/ w.audio_upload # None
    \/ MicAudio(w) # None

\* audio_source = mic_audio if mic_audio is not None else audio_upload
AudioSource(w) == IF MicAudio(w) # None THEN MicAudio(w) ELSE w.audio_upload

\* The two annotations of the preview.  "[frame] " and "[mic] " stand for the
\* picture-frame and microphone emoji the source writes there.
ImagesNote(n) ==
    <<"\n", "\n", "[frame] ">> \o IntToStr(n) \o <<" image(s) attached">>
AudioNote == <<"\n", "\n", "[mic] audio attached">>

Preview(w) ==
    w.text
    \o (IF w.images # << >> THEN ImagesNote(Len(w.images)) ELSE << >>)
    \o (IF w.audio_upload # None \/ MicAudio(w) # None THEN AudioNote ELSE << >>)

Message(role, content, time) ==
    [role |-> role, content |-> content, time |-> time]

\* The mutant appends the exception text without the prefix.
AnswerNoPrefix(r) == r.value

\* answer = run_model(...), or f"Error: {e}" in the except branch.
Answer(r) == IF r.raised THEN <<"Error: ">> \o r.value ELSE r.value


\* ------------------------------------------------------------------ runs
\* State of a session whose first run of the script has finished: the
\* selectbox on its first entry, the text area on that persona's prompt,
\* chat = [] and persona_prompt = system_prompt.
Init ==
    /\ chat = << >>
    /\ persona = DefaultPersona
    /\ system_prompt = PERSONAS[DefaultPersona]
    /\ persona_prompt = PERSONAS[DefaultPersona]
    /\ pc = "idle"
    /\ args = None
    /\ request = None
    /\ result = None
    /\ output = Nothing
    /\ now = 0
    /\ clearedLen = None

\* A run that reads the widgets and touches neither the store nor a call.
Quiet == UNCHANGED <<chat, pc, args, request, result, now, clearedLen>>

\* The persona selectbox changes.  The text area is declared with
\* value=PERSONAS[persona], so it starts again from the new persona's prompt;
\* the run then stores it in persona_prompt.
SelectPersona ==
    /\ pc = "idle"
    /\ \E p \in SelectablePersonas \ {persona} :
          /\ persona' = p
          /\ system_prompt' = PERSONAS[p]
          /\ persona_prompt' = PERSONAS[p]
    /\ output' = Nothing
    /\ Quiet

\* The text area is edited; the run stores its value in persona_prompt.
SetPrompt ==
    /\ pc = "idle"
    /\ \E t \in CustomPrompts \ {system_prompt} :
          /\ system_prompt' = t
          /\ persona_prompt' = t
    /\ output' = Nothing
    /\ UNCHANGED persona
    /\ Quiet

\* Send clicked with nothing to send: the warning, and nothing else.
SendRejected ==
    /\ pc = "idle"
    /\ \E w \in SessionInputs : ~Accepted(w)
    /\ output' = Shown("warning", <<"Type a message or attach media before sending.">>)
    /\ persona_prompt' = system_prompt
    /\ UNCHANGED <<persona, system_prompt>>
    /\ Quiet

\* Send clicked with something to send: the user message is appended, then
\* run_model checks the key, builds the request and calls the provider.
SendBegin ==
    /\ pc = "idle"
    /\ Len(chat) + 2 <= MaxChat
    /\ UNCHANGED <<persona, system_prompt, now>>
    /\ \E w \in SessionInputs, key_present \in BOOLEAN :
          /\ Accepted(w)
          /\ chat' = Append(chat, Message("user", Strip(Preview(w)), Strftime(now)))
          /\ args' = Some(w)
          /\ persona_prompt' = system_prompt
          \* run_model runs after the prompt update of this same run, so the
          \* request is built from the new value of persona_prompt.
          /\ IF key_present
             THEN /\ request' = Some(RunModelRequest(w.text, w.images, AudioSource(w)))'
                  /\ result' = None
             ELSE /\ request' = None
                  /\ result' = Some(Raised(MissingKeyMessage))
    /\ pc' = "awaiting"
    /\ output' = Nothing
    /\ clearedLen' = None

\* generate_content returns and run_model extracts the text.
ProviderReturns ==
    /\ pc = "awaiting"
    /\ request # None
    /\ result = None
    /\ \E response \in Responses :
          result' = Some(Returned(ExtractText(response)))
    /\ UNCHANGED <<chat, persona_prompt, persona, system_prompt, pc, args,
                   request, output, now, clearedLen>>

\* generate_content raises.
ProviderRaises ==
    /\ pc = "awaiting"
    /\ request # None
    /\ result = None
    /\ \E e \in ProviderErrors : result' = Some(Raised(e))
    /\ UNCHANGED <<chat, persona_prompt, persona, system_prompt, pc, args,
                   request, output, now, clearedLen>>

\* The mutant overwrites the pending user message with the answer.
SendFinishReplacing ==
    /\ pc = "awaiting"
    /\ result # None
    /\ chat' = [chat EXCEPT ![Len(chat)] =
                   Message("assistant", Answer(result[1]), Strftime(now))]
    /\ pc' = "idle"
    /\ args' = None
    /\ request' = None
    /\ result' = None
    /\ output' = Nothing
    /\ UNCHANGED <<persona_prompt, persona, system_prompt, now, clearedLen>>

\* The spinner block is left, the assistant message is appended and
\* st.rerun() draws the page again.
SendFinish ==
    /\ pc = "awaiting"
    /\ result # None
    /\ chat' = Append(chat, Message("assistant", Answer(result[1]), Strftime(now)))
    /\ pc' = "idle"
    /\ args' = None
    /\ request' = None
    /\ result' = None
    /\ output' = Nothing
    /\ UNCHANGED <<persona_prompt, persona, system_prompt, now, clearedLen>>

\* A widget event (or Stop) arrives while the handler is inside
\* "with st.spinner(...)".  The Send button and the other widgets are not
\* disabled during a run and no in-flight flag is kept in session_state.
\* Streamlit ends the running script at its next st call -- leaving the
\* spinner, which comes before the assistant append -- by raising a script
\* control exception, a BaseException that "except Exception" does not
\* catch.  The event's own run follows as one of the idle actions.
Interrupt ==
    /\ pc = "awaiting"
    /\ pc' = "idle"
    /\ args' = None
    /\ request' = None
    /\ result' = None
    /\ UNCHANGED <<chat, persona_prompt, persona, system_prompt, output, now,
                   clearedLen>>

\* The mutant drops only the newest message.
ClearLastOnly ==
    /\ pc = "idle"
    /\ chat' = IF chat = << >> THEN << >> ELSE SubSeq(chat, 1, Len(chat) - 1)
    /\ clearedLen' = Some(Len(chat))
    /\ output' = Shown("toast", <<"History cleared.">>)
    /\ persona_prompt' = system_prompt
    /\ UNCHANGED <<persona, system_prompt, pc, args, request, result, now>>

\* "Clear chat history": session_state.pop("chat"), then the run finds no
\* "chat" key and stores a new empty list.
Clear ==
    /\ pc = "idle"
    /\ chat' = << >>
    /\ clearedLen' = Some(Len(chat))
    /\ output' = Shown("toast", <<"History cleared.">>)
    /\ persona_prompt' = system_prompt
    /\ UNCHANGED <<persona, system_prompt, pc, args, request, result, now>>

\* "Download .txt"
DownloadTxt ==
    /\ pc = "idle"
    /\ output' = Shown("download_txt", FormatHistoryForDownload(chat))
    /\ persona_prompt' = system_prompt
    /\ UNCHANGED <<persona, system_prompt>>
    /\ Quiet

\* "Download .json"
DownloadJson ==
    /\ pc = "idle"
    /\ output' = Shown("download_json", JsonDumps(chat))
    /\ persona_prompt' = system_prompt
    /\ UNCHANGED <<persona, system_prompt>>
    /\ Quiet

\* last = next((m for m in reversed(chat) if m["role"] == "assistant"), None)
LastAssistant(history) ==
    LET idx == {i \in 1..Len(history) : history[i].role = "assistant"} IN
    IF idx = {} THEN None
    ELSE Some(history[CHOOSE i \in idx : \A j \in idx : j <= i])

\* What the tools row shows with "Read last reply aloud" switched on.
Spoken(history, gtts_available, synthesis_ok) ==
    IF history # << >> /\ gtts_available /\ LastAssistant(history) # None
    THEN LET mp3 == TtsToBytes(gtts_available, synthesis_ok,
                               LastAssistant(history)[1].content) IN
         IF mp3 # None /\ mp3[1] # << >>
         THEN Shown("audio", mp3[1])
         ELSE Shown("info", <<"Could not synthesize speech (gTTS unavailable or failed).">>)
    ELSE Nothing

\* The mutant records a failed synthesis in the transcript.
ReadAloudLogging ==
    /\ pc = "idle"
    /\ \E gtts_available \in BOOLEAN, synthesis_ok \in BOOLEAN :
          /\ output' = Spoken(chat, gtts_available, synthesis_ok)
          /\ chat' = IF output'.kind = "info"
                     THEN Append(chat, Message("assistant", output'.data, Strftime(now)))
                     ELSE chat
    /\ persona_prompt' = system_prompt
    /\ UNCHANGED <<persona, system_prompt, pc, args, request, result, now,
                   clearedLen>>

\* A run with "Read last reply aloud" switched on.
ReadAloud ==
    /\ pc = "idle"
    /\ \E gtts_available \in BOOLEAN, synthesis_ok \in BOOLEAN :
          output' = Spoken(chat, gtts_available, synthesis_ok)
    /\ persona_prompt' = system_prompt
    /\ UNCHANGED <<persona, system_prompt>>
    /\ Quiet

\* Time passes.
Tick ==
    /\ now + 1 \in Clock
    /\ now' = now + 1
    /\ UNCHANGED <<chat, persona_prompt, persona, system_prompt, pc, args,
                   request, result, output, clearedLen>>

Next ==
    \/ SelectPersona
    \/ SetPrompt
    \/ SendRejected
    \/ SendBegin
    \/ ProviderReturns
    \/ ProviderRaises
    \/ SendFinish
    \/ Interrupt
    \/ Clear
    \/ DownloadTxt
    \/ DownloadJson
    \/ ReadAloud
    \/ Tick

Spec == Init /\ [][Next]_vars


\* ------------------------------------------------------------------ run_model alone
\* run_model as a function of its arguments: every combination of widget
\* values, the key present, before and after the request is built.
InitRequest ==
    /\ args \in {Some(w) : w \in AllInputs}
    /\ request = None
    /\ chat = << >>
    /\ persona = DefaultPersona
    /\ system_prompt = PERSONAS[DefaultPersona]
    /\ persona_prompt = PERSONAS[DefaultPersona]
    /\ pc = "idle"
    /\ result = None
    /\ output = Nothing
    /\ now = 0
    /\ clearedLen = None

CallRunModel ==
    /\ args # None
    /\ request = None
    /\ request' = Some(RunModelRequest(args[1].text, args[1].images,
                                       AudioSource(args[1])))
    /\ UNCHANGED <<chat, persona_prompt, persona, system_prompt, pc, args,
                   result, output, now, clearedLen>>

NextRequest == CallRunModel

SpecRequest == InitRequest /\ [][NextRequest]_vars

\* ------------------------------------------------------------------ properties
\* What the widgets hold to send, said without the handler's own test.
HasText(w) == Len(w.text) > 0
HasImages(w) == Len(w.images) > 0
HasAudio(w) ==
    Len(w.audio_upload) > 0 \/ (w.mic_enabled /\ Len(w.mic_recording) > 0)
\* The audio attachment of a request: the recording when there is one.
TheAudio(w) ==
    IF w.mic_enabled /\ Len(w.mic_recording) > 0 THEN w.mic_recording
    ELSE w.audio_upload
AttachmentParts(w) ==
    [i \in 1..Len(w.images) |-> ImagePart(w.images[i])]
    \o (IF HasAudio(w) THEN <<AudioPart(TheAudio(w)[1])>> ELSE << >>)

StartsWithError(content) ==
    Len(content) >= 1 /\ content[1] = "Error: "

\* C1: whenever the session is idle the history has even length and
\* alternates user, assistant, user, assistant, ... starting with user.
C1_PairedTranscript ==
    pc = "idle" =>
        /\ Len(chat) % 2 = 0
        /\ \A i \in 1..Len(chat) :
              chat[i].role = IF i % 2 = 1 THEN "user" ELSE "assistant"

\* C2: a send with empty text and no image, uploaded audio or microphone
\* recording only shows the warning: the store is as it was, no model call
\* is made and the session stays idle; no handler starts with such input,
\* and the store of an idle session grows only by a handler that started.
C2_EmptySendRejected ==
    [][ /\ SendRejected =>
              /\ output'.kind = "warning"
              /\ chat' = chat
              /\ pc' = "idle"
              /\ request' = None
              /\ result' = None
        /\ (args = None /\ args' # None) =>
              (HasText(args'[1]) \/ HasImages(args'[1]) \/ HasAudio(args'[1]))
        /\ (pc = "idle" /\ chat' # chat /\ chat' # << >>) =>
              args' # None ]_vars

C2_Witness ==
    /\ output.kind = "warning"
    /\ Len(chat) >= 2
    /\ pc = "idle"

\* C3: when run_model ended with an exception, finishing the send appends
\* one assistant message whose content begins with "Error: " and the
\* session is idle again; and an idle session with room accepts a send.
C3_ErrorBecomesMessage ==
    /\ [][ (SendFinish /\ result[1].raised) =>
              /\ Len(chat') = Len(chat) + 1
              /\ SubSeq(chat', 1, Len(chat)) = chat
              /\ chat'[Len(chat')].role = "assistant"
              /\ StartsWithError(chat'[Len(chat')].content)
              /\ pc' = "idle" ]_vars
    /\ [](pc = "idle" /\ Len(chat) + 2 <= MaxChat => ENABLED SendBegin)

\* An error message in the history with a later send after it.
C3_Witness ==
    \E i \in 1..Len(chat) :
        /\ chat[i].role = "assistant"
        /\ StartsWithError(chat[i].content)
        /\ i < Len(chat)
        /\ chat[i + 1].role = "user"

\* C4 as claimed: the contents are the text, or the fallback greeting when
\* the text is empty, then each image in order, then the audio.
C4_GreetingWheneverTextEmpty ==
    request # None /\ args # None =>
        request[1].contents =
            <<TextPart(IF HasText(args[1]) THEN args[1].text ELSE FallbackGreeting)>>
            \o AttachmentParts(args[1])

\* C4 amended: the contents are never empty; they are the text when it is
\* not empty, the fallback greeting only when the text is empty and nothing
\* is attached, and nothing in that place when the text is empty and
\* something is attached; then each image in order, then the audio.
C4_GreetingOnlyWhenNothingToSend ==
    request # None /\ args # None =>
        /\ request[1].contents # << >>
        /\ request[1].contents =
              (IF HasText(args[1]) THEN <<TextPart(args[1].text)>>
               ELSE IF ~HasImages(args[1]) /\ ~HasAudio(args[1])
                    THEN <<TextPart(FallbackGreeting)>>
                    ELSE << >>)
              \o AttachmentParts(args[1])

\* Empty text with one image was sent as the image alone.
C4_Witness ==
    /\ request # None
    /\ args # None
    /\ args[1].text = << >>
    /\ args[1].images = <<Img1>>
    /\ ~HasAudio(args[1])
    /\ request[1].contents = <<ImagePart(Img1)>>

\* C5: the multimodal model is selected exactly when the image list is not
\* empty or an audio attachment, uploaded or recorded, is present; otherwise
\* the text model.
C5_ModelVariant ==
    request # None /\ args # None =>
        request[1].model_name =
            IF HasImages(args[1]) \/ HasAudio(args[1])
            THEN MULTIMODAL_MODEL ELSE TEXT_MODEL

\* A recording alone selected the multimodal model.
C5_Witness ==
    /\ request # None
    /\ args # None
    /\ ~HasImages(args[1])
    /\ args[1].audio_upload = None
    /\ HasAudio(args[1])
    /\ request[1].model_name = MULTIMODAL_MODEL

\* C6: the system prompt of a request is the value the text area holds when
\* the request is made.
C6_PromptLastWriteWins ==
    request # None => request[1].system_instruction = system_prompt

\* A persona was selected, the text area was then overwritten, and the
\* request carries the overwriting text, not the persona's default.
C6_Witness ==
    /\ request # None
    /\ persona # DefaultPersona
    /\ system_prompt \in CustomPrompts
    /\ system_prompt # PERSONAS[persona]
    /\ request[1].system_instruction = system_prompt

\* C7: after a clear and before any further send the store is empty, the
\* plain-text export is the empty text and the JSON export the empty array.
C7_ClearEmpties ==
    clearedLen # None =>
        /\ chat = << >>
        /\ output.kind = "download_txt" => output.data = << >>
        /\ output.kind = "download_json" => output.data = <<"[]">>

\* An export made after a clear that removed a whole exchange.
C7_Witness ==
    /\ clearedLen # None
    /\ clearedLen[1] >= 2
    /\ output.kind \in {"download_txt", "download_json"}

\* C8: no user message is appended before the assistant message of the
\* send before it: a user message is never followed by a user message.
C8_OneSendInFlight ==
    \A i \in 1..(Len(chat) - 1) :
        chat[i].role = "user" => chat[i + 1].role = "assistant"

\* C9: the exports and the read-aloud run leave the store as it was,
\* also when synthesis is unavailable or fails.
C9_ToolsLeaveStore ==
    [][ chat' = chat \/ ~(DownloadTxt \/ DownloadJson \/ ReadAloud) ]_vars

\* Synthesis failed, with an exchange in the store.
C9_Witness ==
    /\ output.kind = "info"
    /\ Len(chat) >= 2

\* C10: every step leaves the old history as a prefix of the new one,
\* except the clear, which leaves none of it.
C10_AppendOnly ==
    [][ IsPrefix(chat, chat') \/ (Clear /\ chat' = << >>) ]_vars

\* A history grown to the bound.
C10_Witness ==
    /\ Len(chat) = MaxChat
    /\ pc = "idle"

====
